---- MODULE Spec2Model ----
(***************************************************************************)
(* BifacialSimu - spectralAlbedoHandler.                                   *)
(*                                                                         *)
(* Two state machines are modelled:                                        *)
(*   Spec    calculateAlbedo: the hourly loop, the results file and the    *)
(*           in-place rewrite of the weather file;                         *)
(*   SpecVF  build_ts_vf_matrix_albedo: the assembly of one view-factor    *)
(*           matrix from the two OrderedPVArray objects.                   *)
(*                                                                         *)
(* Floating-point values are modelled as exact rationals <<n, d>> in       *)
(* lowest terms with d > 0; <<0, 0>> is the not-a-number value math.nan.   *)
(* Irradiances are non-negative, as in a weather file.                     *)
(***************************************************************************)
EXTENDS Integers, Sequences, FiniteSets, TLC

(***************************************************************************)
(* Bounds of the model.                                                    *)
(***************************************************************************)
\* longest simulation window, in hourly records
MaxHours == 4
\* most data rows in the weather file on disk
MaxRows == 5
\* wavelength bands summed per hour (the code sums 107 of the 122 bands)
NumBands == 2

(***************************************************************************)
(* Rational arithmetic.                                                    *)
(***************************************************************************)
Abs(x) == IF x < 0 THEN -x ELSE x

RECURSIVE GCD(_, _)
GCD(a, b) == IF b = 0 THEN a ELSE GCD(b, a % b)

NaN == <<0, 0>>
IsNaN(x) == x[2] = 0

Frac(n, d) ==
    IF d = 0 THEN NaN
    ELSE LET g == GCD(Abs(n), Abs(d))
             s == IF d < 0 THEN -1 ELSE 1
         IN  <<(s * n) \div g, (s * d) \div g>>

Num(k) == <<k, 1>>
Zero == Num(0)
One == Num(1)

RAdd(x, y) == IF IsNaN(x) \/ IsNaN(y) THEN NaN
              ELSE Frac(x[1] * y[2] + y[1] * x[2], x[2] * y[2])
RSub(x, y) == IF IsNaN(x) \/ IsNaN(y) THEN NaN
              ELSE Frac(x[1] * y[2] - y[1] * x[2], x[2] * y[2])
RMul(x, y) == IF IsNaN(x) \/ IsNaN(y) THEN NaN
              ELSE Frac(x[1] * y[1], x[2] * y[2])
\* x / y; the code guards every division, y is never 0 here
RDiv(x, y) == IF IsNaN(x) \/ IsNaN(y) THEN NaN
              ELSE Frac(x[1] * y[2], x[2] * y[1])

(***************************************************************************)
(* datetime: a calendar tuple <<year, month, day, hour>> is converted to   *)
(* the proleptic Gregorian ordinal the way datetime.datetime does; a       *)
(* datetime value is kept as <<ordinal, hour>>.                            *)
(***************************************************************************)
IsLeap(y) == (y % 4 = 0) /\ ((y % 100 # 0) \/ (y % 400 = 0))

DaysInMonth(y, m) ==
    IF m = 2 THEN (IF IsLeap(y) THEN 29 ELSE 28)
    ELSE IF m \in {4, 6, 9, 11} THEN 30 ELSE 31

RECURSIVE DaysBeforeMonth(_, _)
DaysBeforeMonth(y, m) ==
    IF m = 1 THEN 0 ELSE DaysBeforeMonth(y, m - 1) + DaysInMonth(y, m - 1)

DaysBeforeYear(y) ==
    (y - 1) * 365 + ((y - 1) \div 4) - ((y - 1) \div 100) + ((y - 1) \div 400)

\* datetime.datetime(t[0], t[1], t[2], t[3])
DateTime(t) == <<DaysBeforeYear(t[1]) + DaysBeforeMonth(t[1], t[2]) + t[3], t[4]>>

ValidDate(t) == /\ t[2] \in 1..12
                /\ t[3] \in 1..DaysInMonth(t[1], t[2])
                /\ t[4] \in 0..23

\* tzoffset(None, utcOffset*60*60).utcoffset(), in seconds
UtcOffsetSeconds(utcOffset) == utcOffset * 60 * 60

\* (dtEnd - dtStart).total_seconds() of two aware datetimes with that offset:
\* the difference in days and in seconds of the day, each less its offset
TotalSeconds(dtEnd, dtStart, utcOffset) ==
    (dtEnd[1] - dtStart[1]) * 86400
    + ((dtEnd[2] * 3600 - UtcOffsetSeconds(utcOffset))
       - (dtStart[2] * 3600 - UtcOffsetSeconds(utcOffset)))

\* the hour advanced without the carry into the day
AddHours_NoCarry(dt, j) == <<dt[1], (dt[2] + j) % 24>>

\* dt + pd.to_timedelta(j, unit='H')
AddHours(dt, j) == <<dt[1] + ((dt[2] + j) \div 24), (dt[2] + j) % 24>>

\* the window without the +1 for endHour
Timedelta_NoEndHour(sd) ==
    TotalSeconds(DateTime(sd.endHour), DateTime(sd.startHour), sd.utcOffset) \div 3600

Timedelta(sd) ==
    (TotalSeconds(DateTime(sd.endHour), DateTime(sd.startHour), sd.utcOffset)
        \div 3600) + 1

(***************************************************************************)
(* Inputs of a run: the simulation dictionary, the weather dataframe, the  *)
(* reflectance file and the weather file on disk.                          *)
(***************************************************************************)
StartHours == {<<2019, 11, 1, 0>>, <<2019, 11, 30, 23>>, <<2019, 12, 31, 22>>}

EndHours == {t \in {2019, 2020} \X {1, 11, 12} \X {1, 30, 31} \X {0, 1, 2, 3, 22, 23} :
                ValidDate(t)}

UtcOffsets == {-7}

\* spectralReflectancefile: the ground material's reflectance per band
ReflectanceFiles == {"const", "ramp"}

\* the simulation windows: endHour is not before startHour
SimulationDicts ==
    {sd \in [startHour : StartHours, endHour : EndHours, utcOffset : UtcOffsets,
             spectralReflectancefile : ReflectanceFiles] :
        Timedelta(sd) \in 1..MaxHours}

\* rows of the weather dataframe: irradiances in W/m2, angles in degrees
Row(g, n, h, z, az) == [ghi |-> g, dni |-> n, dhi |-> h, zenith |-> z, apparent_zenith |-> az]

RowProfiles ==
    << Row(0, 0, 0, 120, 120),        \* night
       Row(500, 300, 100, 60, 60),    \* clear sky
       Row(0, 300, 100, 60, 60),      \* no global irradiance, direct and diffuse present
       Row(200, 0, 200, 60, 60),      \* diffuse only
       Row(50, 100, 50, 120, 120),    \* sun below the horizon, irradiance present
       Row(100, 100, 0, 0, 0),        \* no diffuse irradiance
       Row(10, 0, 10, 90, 90) >>      \* sun on the horizon

\* a dataframe of n rows that starts at profile o
DataFrame(o, n) == [k \in 1..n |-> RowProfiles[((o + k - 2) % Len(RowProfiles)) + 1]]

(***************************************************************************)
(* The external models, as the fixed functions of their inputs they are.   *)
(***************************************************************************)
\* spectra['wavelength'], 1-based: 300, 305, 310, 315, 325, 340, ... nm
Wavelength == [k \in 1..(NumBands + 3) |->
                 IF k < 3 THEN 300 + 5 * (k - 1)
                 ELSE 310 + (5 * (k - 3) * (k - 2)) \div 2]

\* pvlib.spectrum.spectrl2: spectra['poa_global'] for the zenith it is given;
\* not-a-number entries for a zenith above 90 degrees
Spectrl2(apparent_zenith) ==
    [wavelength |-> Wavelength,
     poa_global |-> [k \in 1..(NumBands + 3) |->
                       IF apparent_zenith > 90 THEN NaN
                       ELSE IF apparent_zenith = 90 THEN Zero
                       ELSE IF apparent_zenith = 0 THEN Num(k)
                       ELSE One]]

\* math.cos(math.radians(deg)) on the angles of the weather rows
Cos(deg) == CASE deg = 0 -> One
              [] deg = 60 -> Frac(1, 2)
              [] deg = 90 -> Zero
              [] deg = 120 -> Frac(-1, 2)

\* the four entries of the view-factor matrix that calculateAlbedo reads,
\* as the geometric engine gives them for the row's sun position
ViewFactorEntries == {<<8, 0>>, <<8, 2>>, <<8, 4>>, <<8, 5>>}

CalculateViewFactor(dataFrame, j) ==
    LET z == dataFrame[j + 1].apparent_zenith
    IN  [e \in ViewFactorEntries |->
            IF z = 0 THEN (CASE e[2] = 0 -> Frac(1, 4) [] e[2] = 2 -> Frac(1, 8)
                             [] e[2] = 4 -> Frac(1, 16) [] e[2] = 5 -> Frac(3, 16))
            ELSE IF z <= 90 THEN (CASE e[2] = 0 -> Frac(1, 8) [] e[2] = 2 -> Frac(1, 4)
                             [] e[2] = 4 -> Frac(3, 16) [] e[2] = 5 -> Frac(1, 16))
            ELSE (CASE e[2] = 0 -> Zero [] e[2] = 2 -> Frac(1, 2)
                             [] e[2] = 4 -> Frac(1, 8) [] e[2] = 5 -> Frac(1, 16))]

\* np.genfromtxt(spectralReflectancefile, usecols=(1)): R(lamda), 1-based
GetReflectivityData(sd) ==
    [i \in 1..NumBands |->
        IF sd.spectralReflectancefile = "const" THEN Frac(3, 10) ELSE Frac(i, 10)]

(***************************************************************************)
(* modellingSpectralIrradiance and the per-hour arithmetic of              *)
(* calculateAlbedo.                                                        *)
(***************************************************************************)
\* sun_zenith without the night-time replacement
SunZenith_NoClamp(dataFrame, j) == dataFrame[j + 1].apparent_zenith

\* sun_zenith after the night-time replacement
SunZenith(dataFrame, j) ==
    LET sun_zenith == dataFrame[j + 1].apparent_zenith
    IN  IF sun_zenith > 90 THEN 0 ELSE sun_zenith

ModellingSpectralIrradiance(dataFrame, j) == Spectrl2(SunZenith(dataFrame, j))

\* <<sum_R_G, sum_G>> after the bands i = 0 .. n-1
RECURSIVE SumBands(_, _, _)
SumBands(spectrum, R_lamda, n) ==
    IF n = 0 THEN <<Zero, Zero>>
    ELSE LET i == n - 1
             prev == SumBands(spectrum, R_lamda, n - 1)
             G_lamda2 == spectrum.poa_global[i + 3]
             delta_lamda == Num(spectrum.wavelength[i + 4] - spectrum.wavelength[i + 3])
         IN  << RAdd(prev[1], RMul(RMul(G_lamda2, R_lamda[i + 1]), delta_lamda)),
                RAdd(prev[2], RMul(G_lamda2, delta_lamda)) >>

\* R with sum_R_G divided by sum_G whatever sum_G is
ComputeR_Unguarded(spectrum, R_lamda) ==
    LET sums == SumBands(spectrum, R_lamda, NumBands)
    IN  RDiv(sums[1], sums[2])

ComputeR(spectrum, R_lamda) ==
    LET sums == SumBands(spectrum, R_lamda, NumBands)
    IN  IF sums[2] = Zero THEN Zero ELSE RDiv(sums[1], sums[2])

\* theta without the replacement above 90 degrees
Theta_NoClamp(row) == row.zenith

\* theta, in degrees, after the replacement above 90 degrees
Theta(row) == IF row.zenith > 90 THEN 0 ELSE row.zenith

ComputeH(row) ==
    IF row.dhi = 0 THEN Zero
    ELSE RMul(RDiv(Num(row.dni), Num(row.dhi)), Cos(Theta(row)))

\* the divisions of hour j: line 325 runs when sum_G is not 0, line 343 when
\* DHI is not 0
DivisionsAt(spectrum, R_lamda, row, j) ==
    (IF SumBands(spectrum, R_lamda, NumBands)[2] = Zero THEN {} ELSE {<<"R", j>>})
    \cup (IF row.dhi = 0 THEN {} ELSE {<<"H", j>>})

\* the extraction without the test of ghi
ExtractViewFactors_NoGhiCheck(row, matrix) ==
    [VF_8_2 |-> matrix[<<8, 2>>],
     VF_8_4 |-> matrix[<<8, 4>>],
     VF_8_5 |-> matrix[<<8, 5>>],
     VF_s_a1 |-> RAdd(RAdd(matrix[<<8, 4>>], matrix[<<8, 5>>]), matrix[<<8, 2>>]),
     VF_s_a2 |-> matrix[<<8, 0>>]]

\* the five view factors recorded for an hour
ExtractViewFactors(row, matrix) ==
    IF row.ghi = 0
    THEN [VF_s_a1 |-> Zero, VF_s_a2 |-> Zero,
          VF_8_2 |-> Zero, VF_8_4 |-> Zero, VF_8_5 |-> Zero]
    ELSE [VF_8_2 |-> matrix[<<8, 2>>],
          VF_8_4 |-> matrix[<<8, 4>>],
          VF_8_5 |-> matrix[<<8, 5>>],
          VF_s_a1 |-> RAdd(RAdd(matrix[<<8, 4>>], matrix[<<8, 5>>]),
                           matrix[<<8, 2>>]),
          VF_s_a2 |-> matrix[<<8, 0>>]]

\* the albedo with the shaded term not weighted by 1/(H+1)
Albedo_ShadedUnweighted(R, H, VF_s_a1, VF_s_a2) == RMul(R, RAdd(VF_s_a1, VF_s_a2))

\* a = R * (VF_s_a1 + (1/(H+1)) * VF_s_a2)
Albedo(R, H, VF_s_a1, VF_s_a2) ==
    RMul(R, RAdd(VF_s_a1, RMul(RDiv(One, RAdd(H, One)), VF_s_a2)))

(***************************************************************************)
(* The weather file.  A file is a sequence of lines, a line is a record of *)
(* its cells and its line terminator.  A numeric cell is <<kind, value>>:  *)
(* kind "int" for an integer literal, "float" for a float literal ("nan"   *)
(* for the value NaN).                                                     *)
(***************************************************************************)
Line(cells, eol) == [cells |-> cells, eol |-> eol]

\* the weather file before the run: two header lines and n data rows
\* with the columns Hour (integers), DHI and Alb (floats)
OriginalFile(n, eol) ==
    <<Line(<<"Golden", "USA", "39.74">>, eol), Line(<<"Hour", "DHI", "Alb">>, eol)>>
    \o [k \in 1..n |-> Line(<< <<"int", Num(k)>>, <<"float", Num(100 * k)>>,
                                <<"float", Frac(1, 4)>> >>, eol)]

\* csv.reader: next(reader) twice
ReadHeaderRows(file) == <<file[1].cells, file[2].cells>>

\* pd.read_csv(weatherFile, sep=',', header=1): the table below the second line
ReadCsv(file) ==
    [columns |-> file[2].cells,
     rows |-> [k \in 1..(Len(file) - 2) |-> file[k + 2].cells]]

AlbColumn(columns) == CHOOSE c \in 1..Len(columns) : columns[c] = "Alb"

\* the nan values appended when a_hourly is shorter than the weather file
RECURSIVE AppendNaN(_, _)
AppendNaN(a, dif_length) ==
    IF dif_length <= 0 THEN a ELSE AppendNaN(Append(a, NaN), dif_length - 1)

\* the padding with 0 in place of nan
PadAlbedo_Zero(a, length_w) ==
    IF Len(a) < length_w THEN a \o [k \in 1..(length_w - Len(a)) |-> Zero] ELSE a

PadAlbedo(a, length_w) ==
    IF Len(a) < length_w THEN AppendNaN(a, length_w - Len(a)) ELSE a

\* weatherfile['Alb'] = a: pandas raises ValueError when the lengths differ,
\* except that a frame without rows takes the index of a non-empty value and
\* fills its other columns with NaN
CanSetColumn(frame, a) ==
    \/ Len(a) = Len(frame.rows)
    \/ Len(frame.rows) = 0 /\ Len(a) > 0

SetAlbColumn(frame, a) ==
    LET c == AlbColumn(frame.columns)
        base == IF Len(frame.rows) = 0
                THEN [k \in 1..Len(a) |-> [x \in 1..Len(frame.columns) |-> <<"float", NaN>>]]
                ELSE frame.rows
    IN  [frame EXCEPT !.rows =
            [k \in 1..Len(base) |-> [base[k] EXCEPT ![c] = <<"float", a[k]>>]]]

\* weatherfile.values.tolist(): one float64 array, integers become floats
ValuesToList(frame) ==
    [k \in 1..Len(frame.rows) |->
        [x \in 1..Len(frame.columns) |-> <<"float", frame.rows[k][x][2]>>]]

\* what csv.writer writes for the rows it is given, in order
CsvLines(rows) == [k \in 1..Len(rows) |-> Line(rows[k], "CRLF")]

(***************************************************************************)
(* calculateAlbedo as a state machine.                                     *)
(***************************************************************************)
VARIABLES
    simulationDict,   \* startHour, endHour, utcOffset, spectralReflectancefile
    df,               \* the weather dataframe
    weatherFile,      \* the weather file on disk
    originalFile,     \* the weather file as it was before the run
    resultsFile,      \* spectral_Albedo.csv: <<>> until written
    pc,               \* position in calculateAlbedo
    error,            \* the exception that ended the run, "none" otherwise
    timedelta, j, R_lamda_array,
    R_hourly, H_hourly, VF_8_2_hourly, VF_8_4_hourly, VF_8_5_hourly,
    VF_S_A1, VF_S_A2, a_hourly, cd,
    sun_zenith,       \* zenith last handed to aoi, airmass and spectrl2
    theta,            \* zenith last used in the cosine of H, in degrees
    divisions,        \* the divisions carried out: <<"R", hour>>, <<"H", hour>>
    rows12,           \* row1 and row2 read from the weather file
    weatherfile,      \* the pandas frame read from the weather file
    weatherfile_list, \* weatherfile.values.tolist()
    opens,            \* times the weather file was opened for writing
    pvarray_pv,       \* build_ts_vf_matrix_albedo: the PV rows' array
    pvarray_albedo,   \* build_ts_vf_matrix_albedo: the albedometer's array
    engine,           \* the view factors the geometric engine computes
    vf_matrix,        \* the matrix under assembly
    vf_pc,            \* position in build_ts_vf_matrix_albedo
    vf_i,             \* index of the loop over pvarray_pv.all_ts_surfaces
    vf_error,         \* the exception that ended the assembly, "none" otherwise
    touched           \* the <<row, column>> indices written so far

inputs == <<simulationDict, df, originalFile>>
hourly == <<R_hourly, H_hourly, VF_8_2_hourly, VF_8_4_hourly, VF_8_5_hourly,
            VF_S_A1, VF_S_A2, a_hourly, cd>>
merge == <<rows12, weatherfile, weatherfile_list>>
vfvars == <<pvarray_pv, pvarray_albedo, engine, vf_matrix, vf_pc, vf_i, vf_error, touched>>
vars == <<vfvars, simulationDict, df, weatherFile, originalFile, resultsFile, pc, error,
          timedelta, j, R_lamda_array,
          R_hourly, H_hourly, VF_8_2_hourly, VF_8_4_hourly, VF_8_5_hourly,
          VF_S_A1, VF_S_A2, a_hourly, cd, sun_zenith, theta, divisions,
          rows12, weatherfile, weatherfile_list, opens>>

OriginalEols == {"LF", "CRLF"}

\* no matrix is being assembled
VFIdle ==
    /\ pvarray_pv = <<>> /\ pvarray_albedo = <<>> /\ engine = <<>>
    /\ vf_matrix = <<>> /\ vf_pc = "idle" /\ vf_i = 0 /\ vf_error = "none"
    /\ touched = {}

Init ==
    /\ simulationDict \in SimulationDicts
    /\ \E o \in 1..Len(RowProfiles), short \in BOOLEAN :
          df = DataFrame(o, IF short THEN Timedelta(simulationDict) - 1 ELSE MaxHours)
    /\ \E n \in 0..MaxRows, eol \in OriginalEols : originalFile = OriginalFile(n, eol)
    /\ weatherFile = originalFile
    /\ resultsFile = <<>>
    /\ pc = "begin"
    /\ error = "none"
    /\ timedelta = 0
    /\ j = 0
    /\ R_lamda_array = <<>>
    /\ R_hourly = <<>> /\ H_hourly = <<>>
    /\ VF_8_2_hourly = <<>> /\ VF_8_4_hourly = <<>> /\ VF_8_5_hourly = <<>>
    /\ VF_S_A1 = <<>> /\ VF_S_A2 = <<>> /\ a_hourly = <<>> /\ cd = <<>>
    /\ sun_zenith = 0 /\ theta = 0
    /\ divisions = {}
    /\ rows12 = <<>> /\ weatherfile = <<>> /\ weatherfile_list = <<>>
    /\ opens = 0
    /\ VFIdle

\* lines 263-283: the time window, the empty arrays, the reflectance curve
Begin ==
    /\ pc = "begin"
    /\ timedelta' = Timedelta(simulationDict)
    /\ R_lamda_array' = GetReflectivityData(simulationDict)
    /\ j' = 0
    /\ pc' = "loop"
    /\ UNCHANGED <<vfvars, inputs, divisions, weatherFile, resultsFile, error, hourly, sun_zenith, theta,
                   merge, opens>>

\* an exception leaves calculateAlbedo: nothing after the raising line runs
Raise(exception) ==
    /\ pc' = "aborted"
    /\ error' = exception
    /\ UNCHANGED <<vfvars, inputs, divisions, weatherFile, resultsFile, timedelta, j, R_lamda_array,
                   hourly, sun_zenith, theta, merge, opens>>

\* the spectral step with R appended a second time
SpectralStep_RTwice ==
    /\ pc = "loop" /\ j < timedelta /\ j < Len(df)
    /\ LET spectrum == ModellingSpectralIrradiance(df, j)
           R == ComputeR(spectrum, R_lamda_array)
           H == ComputeH(df[j + 1])
       IN  /\ R_hourly' = Append(Append(R_hourly, R), R)
           /\ H_hourly' = Append(H_hourly, H)
    /\ sun_zenith' = SunZenith(df, j)
    /\ theta' = Theta(df[j + 1])
    /\ divisions' = divisions \cup DivisionsAt(ModellingSpectralIrradiance(df, j), R_lamda_array,
                                                df[j + 1], j)
    /\ pc' = "matrix"
    /\ UNCHANGED <<vfvars, inputs, weatherFile, resultsFile, error, timedelta, j, R_lamda_array,
                   VF_8_2_hourly, VF_8_4_hourly, VF_8_5_hourly, VF_S_A1, VF_S_A2,
                   a_hourly, cd, merge, opens>>

\* lines 294-345 for hour j: the spectrum, R and H
SpectralStep ==
    /\ pc = "loop" /\ j < timedelta /\ j < Len(df)
    /\ LET spectrum == ModellingSpectralIrradiance(df, j)
           R == ComputeR(spectrum, R_lamda_array)
           H == ComputeH(df[j + 1])
       IN  /\ R_hourly' = Append(R_hourly, R)
           /\ H_hourly' = Append(H_hourly, H)
    /\ sun_zenith' = SunZenith(df, j)
    /\ theta' = Theta(df[j + 1])
    /\ divisions' = divisions \cup DivisionsAt(ModellingSpectralIrradiance(df, j), R_lamda_array,
                                                df[j + 1], j)
    /\ pc' = "matrix"
    /\ UNCHANGED <<vfvars, inputs, weatherFile, resultsFile, error, timedelta, j, R_lamda_array,
                   VF_8_2_hourly, VF_8_4_hourly, VF_8_5_hourly, VF_S_A1, VF_S_A2,
                   a_hourly, cd, merge, opens>>

\* line 77: df.iloc[j] beyond the last row of the dataframe
SpectralIndexError ==
    /\ pc = "loop" /\ j < timedelta /\ j >= Len(df)
    /\ Raise("IndexError")

\* line 294: the spectral model raises
SpectralFail ==
    /\ pc = "loop" /\ j < timedelta /\ j < Len(df)
    /\ Raise("SpectralModelError")

\* lines 352-381 for hour j: the matrix, the view factors, the albedo, the date
MatrixStep ==
    /\ pc = "matrix"
    /\ LET matrix == CalculateViewFactor(df, j)
           vf == ExtractViewFactors(df[j + 1], matrix)
           R == R_hourly[Len(R_hourly)]
           H == H_hourly[Len(H_hourly)]
           a == Albedo(R, H, vf.VF_s_a1, vf.VF_s_a2)
       IN  /\ VF_8_2_hourly' = Append(VF_8_2_hourly, vf.VF_8_2)
           /\ VF_8_4_hourly' = Append(VF_8_4_hourly, vf.VF_8_4)
           /\ VF_8_5_hourly' = Append(VF_8_5_hourly, vf.VF_8_5)
           /\ VF_S_A1' = Append(VF_S_A1, vf.VF_s_a1)
           /\ VF_S_A2' = Append(VF_S_A2, vf.VF_s_a2)
           /\ a_hourly' = Append(a_hourly, a)
    /\ cd' = Append(cd, AddHours(DateTime(simulationDict.startHour), j))
    /\ j' = j + 1
    /\ pc' = "loop"
    /\ UNCHANGED <<vfvars, inputs, divisions, weatherFile, resultsFile, error, timedelta, R_lamda_array,
                   R_hourly, H_hourly, sun_zenith, theta, merge, opens>>

\* the engine's exception swallowed: the hour is skipped and the loop goes on
MatrixFail_SkipHour ==
    /\ pc = "matrix"
    /\ j' = j + 1
    /\ pc' = "loop"
    /\ UNCHANGED <<vfvars, inputs, divisions, weatherFile, resultsFile, error, timedelta, R_lamda_array,
                   hourly, sun_zenith, theta, merge, opens>>

\* line 352: the geometric engine raises
MatrixFail ==
    /\ pc = "matrix"
    /\ Raise("GeometryError")

\* lines 387-388: the nine arrays become the rows of spectral_Albedo.csv
SaveResults ==
    /\ pc = "loop" /\ j >= timedelta
    /\ resultsFile' = [k \in 1..Len(cd) |->
          [datetime |-> cd[k], spectral_Albedo |-> a_hourly[k], R |-> R_hourly[k],
           H |-> H_hourly[k], VF_s_a1 |-> VF_S_A1[k], VF_8_2 |-> VF_8_2_hourly[k],
           VF_8_4 |-> VF_8_4_hourly[k], VF_8_5 |-> VF_8_5_hourly[k],
           VF_s_a2 |-> VF_S_A2[k]]]
    /\ pc' = "merge"
    /\ UNCHANGED <<vfvars, inputs, divisions, weatherFile, error, timedelta, j, R_lamda_array, hourly,
                   sun_zenith, theta, merge, opens>>

\* lines 395-418: read the weather file, pad a_hourly, replace the column Alb
MergeColumn ==
    /\ pc = "merge"
    /\ LET frame == ReadCsv(weatherFile)
           padded == PadAlbedo(a_hourly, Len(frame.rows))
       IN  /\ CanSetColumn(frame, padded)
           /\ a_hourly' = padded
           /\ weatherfile' = SetAlbColumn(frame, padded)
           /\ weatherfile_list' = ValuesToList(SetAlbColumn(frame, padded))
    /\ rows12' = ReadHeaderRows(weatherFile)
    /\ pc' = "open"
    /\ UNCHANGED <<vfvars, inputs, divisions, weatherFile, resultsFile, error, timedelta, j, R_lamda_array,
                   R_hourly, H_hourly, VF_8_2_hourly, VF_8_4_hourly, VF_8_5_hourly,
                   VF_S_A1, VF_S_A2, cd, sun_zenith, theta, opens>>

\* line 415: the lengths differ and pandas raises
MergeMismatch ==
    /\ pc = "merge"
    /\ LET frame == ReadCsv(weatherFile)
       IN  ~CanSetColumn(frame, PadAlbedo(a_hourly, Len(frame.rows)))
    /\ Raise("ValueError")

\* what lines 424-426 write: row1, row2, then the rows of the table
LinesToWrite == CsvLines(rows12 \o weatherfile_list)

\* line 421: open(weatherFile, 'w+') empties the file
OpenForWrite ==
    /\ pc = "open"
    /\ weatherFile' = <<>>
    /\ opens' = opens + 1
    /\ pc' = "write"
    /\ UNCHANGED <<vfvars, inputs, divisions, resultsFile, error, timedelta, j, R_lamda_array, hourly,
                   sun_zenith, theta, merge>>

\* lines 424-426: the next line reaches the file
WriteRow ==
    /\ pc = "write"
    /\ Len(weatherFile) < Len(LinesToWrite)
    /\ weatherFile' = Append(weatherFile, LinesToWrite[Len(weatherFile) + 1])
    /\ UNCHANGED <<vfvars, inputs, divisions, resultsFile, pc, error, timedelta, j, R_lamda_array, hourly,
                   sun_zenith, theta, merge, opens>>

\* lines 424-426: a write raises; the with-block closes the file as it is
WriteFail ==
    /\ pc = "write"
    /\ Len(weatherFile) < Len(LinesToWrite)
    /\ Raise("OSError")

\* the with-block ends after the last row
CloseFile ==
    /\ pc = "write"
    /\ Len(weatherFile) = Len(LinesToWrite)
    /\ pc' = "done"
    /\ UNCHANGED <<vfvars, inputs, divisions, weatherFile, resultsFile, error, timedelta, j, R_lamda_array,
                   hourly, sun_zenith, theta, merge, opens>>

Next ==
    \/ Begin
    \/ SpectralStep
    \/ SpectralIndexError
    \/ SpectralFail
    \/ MatrixStep
    \/ MatrixFail
    \/ SaveResults
    \/ MergeColumn
    \/ MergeMismatch
    \/ OpenForWrite
    \/ WriteRow
    \/ WriteFail
    \/ CloseFile

Spec == Init /\ [][Next]_vars

(***************************************************************************)
(* build_ts_vf_matrix_albedo as a state machine.                           *)
(*                                                                         *)
(* An OrderedPVArray is the ordered list of its timeseries surfaces, the   *)
(* ground surfaces first and the PV row surfaces after them; the index of  *)
(* a surface is its position, from 0.  Lengths are in units of             *)
(* DISTANCE_TOLERANCE.                                                     *)
(***************************************************************************)
\* most ground surfaces of the albedometer's array
MaxGround == 2
\* most PV row surfaces of an array
MaxRowSurfaces == 2

\* pvfactors.config.DISTANCE_TOLERANCE, the unit of length
DISTANCE_TOLERANCE == 1

\* the lengths of n surfaces: all with extent, all at the tolerance, or
\* every second one without extent
LengthPatterns == {"full", "tolerance", "even_empty", "odd_empty"}

Lengths(pattern, n) ==
    [k \in 1..n |->
        CASE pattern = "full" -> 2
          [] pattern = "tolerance" -> DISTANCE_TOLERANCE
          [] pattern = "even_empty" -> (IF k % 2 = 0 THEN 0 ELSE 2)
          [] pattern = "odd_empty" -> (IF k % 2 = 1 THEN 0 ELSE 2)]

\* OrderedPVArray.fit_from_dict_of_scalars: n_ground ground surfaces and
\* n_row PV row surfaces
PVArray(n_ground, n_row, pattern) ==
    [n_ground |-> n_ground, length |-> Lengths(pattern, n_ground + n_row)]

N_ts_surfaces(pvarray) == Len(pvarray.length)

\* surface index i of an array, its length
SurfaceLength(pvarray, i) == pvarray.length[i + 1]

\* indices of ts_ground and of ts_pvrows
GroundIndices(pvarray) == 0..(pvarray.n_ground - 1)
PVRowIndices(pvarray) == pvarray.n_ground..(N_ts_surfaces(pvarray) - 1)

\* the view factors the engine computes between two surfaces with extent
EngineValues == [pvrow_gnd : {Zero, Frac(1, 4)},
                 gnd_pvrow : {Zero, Frac(1, 8)},
                 pvrow_pvrow : {Zero, Frac(1, 4)}]

\* the matrix has n_ts_surfaces + 1 rows and columns, the last for the sky
InMatrix(n, i) == i \in 0..n

\* np.zeros((n_ts_surfaces + 1, n_ts_surfaces + 1, n_steps))
Zeros(n) == [e \in (0..n) \X (0..n) |-> Zero]

\* the entries VFTsMethods.vf_pvrow_gnd_surf writes, as <<row, column, value,
\* order>>: for each PV row surface i of ts_pvrows in turn and each ground
\* surface g of ts_ground, first [i, g], then [g, i]; a surface without
\* extent has view factor 0
PvrowGndWrites(ts_pvrows, ts_ground, values) ==
    {<<i, g, IF SurfaceLength(ts_pvrows, i) > DISTANCE_TOLERANCE
             THEN values.pvrow_gnd ELSE Zero, 2 * i>> :
        i \in PVRowIndices(ts_pvrows), g \in GroundIndices(ts_ground)}
    \cup
    {<<g, i, IF SurfaceLength(ts_ground, g) > DISTANCE_TOLERANCE
             THEN values.gnd_pvrow ELSE Zero, 2 * i + 1>> :
        i \in PVRowIndices(ts_pvrows), g \in GroundIndices(ts_ground)}

\* the entries VFTsMethods.vf_pvrow_to_pvrow writes: between distinct PV row
\* surfaces of ts_pvrows
PvrowPvrowWrites(ts_pvrows, values) ==
    {<<p[1], p[2], IF SurfaceLength(ts_pvrows, p[1]) > DISTANCE_TOLERANCE
                   THEN values.pvrow_pvrow ELSE Zero, 0>> :
        p \in {q \in PVRowIndices(ts_pvrows) \X PVRowIndices(ts_pvrows) : q[1] # q[2]}}

\* the matrix after the writes w, all inside it; of two writes to one entry
\* the later one stays
ApplyWrites(matrix, w) ==
    [e \in DOMAIN matrix |->
        LET here == {x \in w : x[1] = e[1] /\ x[2] = e[2]}
        IN  IF here = {} THEN matrix[e]
            ELSE (CHOOSE x \in here : \A y \in here : y[4] <= x[4])[3]]

\* np.sum(vf_matrix[:-1, :-1, :], axis=1) for row i
RECURSIVE RowSumTo(_, _, _)
RowSumTo(matrix, i, c) ==
    IF c < 0 THEN Zero ELSE RAdd(RowSumTo(matrix, i, c - 1), matrix[<<i, c>>])

\* vf_matrix[:-1, -1, :] = 1. - np.sum(vf_matrix[:-1, :-1, :], axis=1)
SkyViewFactors(matrix, n) ==
    [e \in DOMAIN matrix |->
        IF e[1] < n /\ e[2] = n THEN RSub(One, RowSumTo(matrix, e[1], n - 1))
        ELSE matrix[e]]

\* np.where(ts_surf.length > DISTANCE_TOLERANCE, vf_matrix[i, -1, :], 0.)
SkyOrZero(length, sky) == IF length > DISTANCE_TOLERANCE THEN sky ELSE Zero

VFInit ==
    /\ \E g \in 1..MaxGround, r \in 1..MaxRowSurfaces, p \in LengthPatterns :
          pvarray_albedo = PVArray(g, r, p)
    /\ \E g \in 1..(MaxGround + 2), r \in 1..MaxRowSurfaces, p \in LengthPatterns :
          pvarray_pv = PVArray(g, r, p)
    /\ engine \in EngineValues
    /\ vf_matrix = <<>>
    /\ vf_pc = "allocate"
    /\ vf_i = 0
    /\ vf_error = "none"
    /\ touched = {}

\* calculateAlbedo is not running
PipelineIdle ==
    /\ simulationDict = [startHour |-> <<2019, 11, 1, 0>>, endHour |-> <<2019, 11, 1, 0>>,
                         utcOffset |-> -7, spectralReflectancefile |-> "const"]
    /\ df = <<>>
    /\ originalFile = OriginalFile(0, "LF")
    /\ weatherFile = originalFile
    /\ resultsFile = <<>>
    /\ pc = "idle"
    /\ error = "none"
    /\ timedelta = 0 /\ j = 0 /\ R_lamda_array = <<>>
    /\ R_hourly = <<>> /\ H_hourly = <<>>
    /\ VF_8_2_hourly = <<>> /\ VF_8_4_hourly = <<>> /\ VF_8_5_hourly = <<>>
    /\ VF_S_A1 = <<>> /\ VF_S_A2 = <<>> /\ a_hourly = <<>> /\ cd = <<>>
    /\ sun_zenith = 0 /\ theta = 0
    /\ divisions = {}
    /\ rows12 = <<>> /\ weatherfile = <<>> /\ weatherfile_list = <<>>
    /\ opens = 0

pvars == <<simulationDict, df, weatherFile, originalFile, resultsFile, pc, error,
           timedelta, j, R_lamda_array, hourly, sun_zenith, theta, divisions, merge,
           opens>>

InitVF == VFInit /\ PipelineIdle

\* the matrix is sized by the albedometer's array
N == N_ts_surfaces(pvarray_albedo)

\* lines 161-165: the zero matrix
Allocate ==
    /\ vf_pc = "allocate"
    /\ vf_matrix' = Zeros(N)
    /\ vf_pc' = "pvrow_gnd"
    /\ UNCHANGED <<pvars, pvarray_pv, pvarray_albedo, engine, vf_i, vf_error, touched>>

\* an IndexError leaves build_ts_vf_matrix_albedo; w are the writes attempted
VFRaise(w) ==
    /\ vf_pc' = "raised"
    /\ vf_error' = "IndexError"
    /\ touched' = touched \cup {<<x[1], x[2]>> : x \in w}
    /\ UNCHANGED <<pvars, pvarray_pv, pvarray_albedo, engine, vf_matrix, vf_i>>

\* line 172: PV row surfaces of the albedometer against the ground of the PV rows
PvrowGndSurf ==
    /\ vf_pc = "pvrow_gnd"
    /\ LET w == PvrowGndWrites(pvarray_albedo, pvarray_pv, engine)
       IN  /\ \A x \in w : InMatrix(N, x[1]) /\ InMatrix(N, x[2])
           /\ vf_matrix' = ApplyWrites(vf_matrix, w)
           /\ touched' = touched \cup {<<x[1], x[2]>> : x \in w}
    /\ vf_pc' = "pvrow_pvrow"
    /\ UNCHANGED <<pvars, pvarray_pv, pvarray_albedo, engine, vf_i, vf_error>>

\* line 172: a ground surface of the PV rows has an index beyond the matrix
PvrowGndIndexError ==
    /\ vf_pc = "pvrow_gnd"
    /\ LET w == PvrowGndWrites(pvarray_albedo, pvarray_pv, engine)
       IN  /\ \E x \in w : ~(InMatrix(N, x[1]) /\ InMatrix(N, x[2]))
           /\ VFRaise(w)

\* line 175: between the PV row surfaces of the albedometer
PvrowToPvrow ==
    /\ vf_pc = "pvrow_pvrow"
    /\ LET w == PvrowPvrowWrites(pvarray_albedo, engine)
       IN  /\ vf_matrix' = ApplyWrites(vf_matrix, w)
           /\ touched' = touched \cup {<<x[1], x[2]>> : x \in w}
    /\ vf_pc' = "sky"
    /\ UNCHANGED <<pvars, pvarray_pv, pvarray_albedo, engine, vf_i, vf_error>>

\* line 178: the view factors to the sky
SkyClosure ==
    /\ vf_pc = "sky"
    /\ vf_matrix' = SkyViewFactors(vf_matrix, N)
    /\ touched' = touched \cup {<<i, N>> : i \in 0..(N - 1)}
    /\ vf_i' = 0
    /\ vf_pc' = "degenerate"
    /\ UNCHANGED <<pvars, pvarray_pv, pvarray_albedo, engine, vf_error>>

\* lines 180-181: surface vf_i of pvarray_pv.all_ts_surfaces
DegenerateStep ==
    /\ vf_pc = "degenerate"
    /\ vf_i < N_ts_surfaces(pvarray_pv)
    /\ InMatrix(N, vf_i)
    /\ vf_matrix' = [vf_matrix EXCEPT ![<<vf_i, N>>] =
                        SkyOrZero(SurfaceLength(pvarray_pv, vf_i), @)]
    /\ touched' = touched \cup {<<vf_i, N>>}
    /\ vf_i' = vf_i + 1
    /\ UNCHANGED <<pvars, pvarray_pv, pvarray_albedo, engine, vf_pc, vf_error>>

\* line 181: pvarray_pv has a surface whose index is beyond the matrix
DegenerateIndexError ==
    /\ vf_pc = "degenerate"
    /\ vf_i < N_ts_surfaces(pvarray_pv)
    /\ ~InMatrix(N, vf_i)
    /\ VFRaise({<<vf_i, N, Zero, 0>>})

\* line 183
ReturnMatrix ==
    /\ vf_pc = "degenerate"
    /\ vf_i >= N_ts_surfaces(pvarray_pv)
    /\ vf_pc' = "returned"
    /\ UNCHANGED <<pvars, pvarray_pv, pvarray_albedo, engine, vf_matrix, vf_i, vf_error,
                   touched>>

NextVF ==
    \/ Allocate
    \/ PvrowGndSurf
    \/ PvrowGndIndexError
    \/ PvrowToPvrow
    \/ SkyClosure
    \/ DegenerateStep
    \/ DegenerateIndexError
    \/ ReturnMatrix

SpecVF == InitVF /\ [][NextVF]_vars

(***************************************************************************)
(* Properties of calculateAlbedo.                                          *)
(***************************************************************************)
\* hours for which the loop has recorded the view factors and the albedo
Recorded == 1..Len(VF_S_A1)

\* complete records: hours present in every one of the nine arrays
RECURSIVE MinLen(_)
MinLen(lists) ==
    IF Len(lists) = 1 THEN Len(lists[1])
    ELSE LET m == MinLen(Tail(lists))
         IN  IF Len(lists[1]) < m THEN Len(lists[1]) ELSE m

NumRecords == MinLen(hourly)

\* the rows of the weather table before the run
OriginalRows == Len(originalFile) - 2

\* the run has passed line 415
Merged == pc \in {"open", "write", "done"} \/ (pc = "aborted" /\ error = "OSError")

\* C1: every recorded hour whose weather row has ghi = 0 has VF_s_a1 = 0,
\* VF_s_a2 = 0 and albedo 0, whatever R, H and the matrix of that hour are.
C1_ZeroGhiZeroAlbedo ==
    \A k \in Recorded :
        df[k].ghi = 0 =>
            /\ VF_S_A1[k] = Zero
            /\ VF_S_A2[k] = Zero
            /\ a_hourly[k] = Zero

\* an hour with ghi = 0 is recorded although its R, its H and the matrix
\* entries of its sun position are all non-zero
C1_Witness ==
    \E k \in Recorded :
        /\ df[k].ghi = 0
        /\ R_hourly[k] # Zero
        /\ H_hourly[k] # Zero
        /\ \A e \in ViewFactorEntries : CalculateViewFactor(df, k - 1)[e] # Zero

\* the hours from startHour to endHour, both included
WindowHours ==
    LET s == DateTime(simulationDict.startHour)
        e == DateTime(simulationDict.endHour)
    IN  (e[1] - s[1]) * 24 + (e[2] - s[2]) + 1

\* C2: a run that completes has produced exactly T records, T the whole
\* hours from startHour to endHour with both endpoints: 4 records for
\* (2019,11,1,0)..(2019,11,1,3), 1 record when startHour = endHour.
C2_RecordCount ==
    pc = "done" =>
        /\ Len(resultsFile) = WindowHours
        /\ NumRecords = WindowHours
        /\ (simulationDict.startHour = <<2019, 11, 1, 0>>
              /\ simulationDict.endHour = <<2019, 11, 1, 3>> => Len(resultsFile) = 4)
        /\ (simulationDict.startHour = simulationDict.endHour => Len(resultsFile) = 1)

\* the run of the scenario (2019,11,1,0)..(2019,11,1,3) has completed
C2_Witness ==
    /\ pc = "done"
    /\ simulationDict.startHour = <<2019, 11, 1, 0>>
    /\ simulationDict.endHour = <<2019, 11, 1, 3>>
    /\ Len(resultsFile) = 4

\* the run ended in the spectral step or in the matrix step of hour j
FailedInLoop == pc = "aborted" /\ error \in {"IndexError", "SpectralModelError", "GeometryError"}

\* C3: a failure of the spectral step or of the matrix step at hour k ends
\* the run: there is no record for hour k or a later hour, nothing runs after
\* it, the weather file is as it was.  In every run the weather file is
\* opened for writing at most once, and only after all T hours.
C3_FailureAborts ==
    /\ FailedInLoop =>
          /\ NumRecords = j
          /\ Len(a_hourly) = j /\ Len(cd) = j
          /\ resultsFile = <<>>
          /\ weatherFile = originalFile
          /\ opens = 0
          /\ ~ENABLED Next
    /\ opens <= 1
    /\ opens = 1 => j = timedelta /\ NumRecords = timedelta /\ resultsFile # <<>>
    /\ opens = 0 => weatherFile = originalFile

\* the matrix step failed at the second hour, after one complete record
C3_Witness ==
    /\ pc = "aborted" /\ error = "GeometryError"
    /\ j = 1
    /\ NumRecords = 1
    /\ timedelta > 2

\* C4: after a failure the weather file holds its complete original content
\* or the complete new content.
C4_AllOrNothing ==
    pc = "aborted" => weatherFile = originalFile \/ weatherFile = LinesToWrite

\* C5: with more records than weather rows the run ends in the merge step
\* with the length error and the weather file is not modified.
C5_ExcessRecordsRejected ==
    (resultsFile # <<>> /\ pc # "merge" /\ Len(resultsFile) > OriginalRows) =>
        /\ pc = "aborted" /\ error = "ValueError"
        /\ weatherFile = originalFile

\* the column Alb of what is written after the two header rows
WrittenAlb ==
    [k \in 1..Len(weatherfile_list) |->
        weatherfile_list[k][AlbColumn(weatherfile.columns)]]

\* C6: with L_a <= L_w the column written has length L_w, starts with the
\* L_a computed albedos in hour order and ends with L_w - L_a times nan;
\* with L_a = L_w no nan is added.
C6_Padding ==
    (Merged /\ Len(resultsFile) <= OriginalRows) =>
        /\ Len(WrittenAlb) = OriginalRows
        /\ Len(a_hourly) = OriginalRows
        /\ \A k \in 1..Len(resultsFile) :
              /\ a_hourly[k] = resultsFile[k].spectral_Albedo
              /\ ~IsNaN(a_hourly[k])
              /\ WrittenAlb[k] = <<"float", a_hourly[k]>>
        /\ \A k \in (Len(resultsFile) + 1)..OriginalRows :
              /\ a_hourly[k] = NaN
              /\ WrittenAlb[k] = <<"float", NaN>>
        /\ (pc = "done" =>
              \A k \in 1..OriginalRows :
                  weatherFile[k + 2].cells[AlbColumn(weatherfile.columns)] = WrittenAlb[k])

\* a completed run whose two records were padded to the five weather rows
C6_Witness ==
    /\ pc = "done"
    /\ Len(resultsFile) = 2
    /\ OriginalRows = 5
    /\ a_hourly[2] # Zero
    /\ a_hourly[3] = NaN

\* C10: every recorded hour with ghi # 0 has
\* albedo = R * (VF_unshaded + VF_shaded / (H + 1)), VF_unshaded =
\* vf[8,4] + vf[8,5] + vf[8,2] and VF_shaded = vf[8,0] of that hour's matrix;
\* with dni = 0 and dhi # 0, H = 0 and albedo = R * (VF_unshaded + VF_shaded).
C10_AlbedoFormula ==
    \A k \in Recorded :
        df[k].ghi # 0 =>
            LET vf == CalculateViewFactor(df, k - 1)
                unshaded == RAdd(RAdd(vf[<<8, 4>>], vf[<<8, 5>>]), vf[<<8, 2>>])
                shaded == vf[<<8, 0>>]
            IN  /\ VF_S_A1[k] = unshaded
                /\ VF_S_A2[k] = shaded
                /\ a_hourly[k] =
                      RMul(R_hourly[k],
                           RAdd(unshaded, RDiv(shaded, RAdd(H_hourly[k], One))))
                /\ (df[k].dni = 0 /\ df[k].dhi # 0 =>
                      /\ H_hourly[k] = Zero
                      /\ a_hourly[k] = RMul(R_hourly[k], RAdd(unshaded, shaded)))

\* two hours with ghi # 0 are recorded, one with H = 0 from dni = 0 and one
\* with H # 0, both with a non-zero albedo
C10_Witness ==
    \E k, m \in Recorded :
        /\ df[k].ghi # 0 /\ df[k].dni = 0 /\ df[k].dhi # 0 /\ a_hourly[k] # Zero
        /\ df[m].ghi # 0 /\ H_hourly[m] # Zero /\ a_hourly[m] # Zero
        /\ VF_S_A2[m] # Zero

\* <<sum_R_G, sum_G>> of the k-th recorded hour
SumsOfHour(k) == SumBands(ModellingSpectralIrradiance(df, k - 1), R_lamda_array, NumBands)

\* C11: every hour whose sum_G over the consumed bands is 0 has the recorded
\* R = 0 and no division was carried out for it; every other hour has
\* R = sum_R_G / sum_G.
C11_GuardedR ==
    \A k \in 1..Len(R_hourly) :
        LET sums == SumsOfHour(k)
        IN  IF sums[2] = Zero
            THEN R_hourly[k] = Zero /\ <<"R", k - 1>> \notin divisions
            ELSE R_hourly[k] = RDiv(sums[1], sums[2]) /\ <<"R", k - 1>> \in divisions

\* an hour without spectral irradiance is recorded with R = 0 next to an hour
\* whose R is a proper quotient
C11_Witness ==
    \E k, m \in 1..Len(R_hourly) :
        /\ SumsOfHour(k)[2] = Zero /\ R_hourly[k] = Zero
        /\ SumsOfHour(m)[2] # Zero /\ R_hourly[m] \notin {Zero, One}
        /\ R_hourly[m] # R_lamda_array[1]

\* C12: every hour with dhi = 0 has the recorded H = 0 and no division by
\* dhi was carried out; for every hour with zenith above 90 degrees the angle
\* in the cosine of H is 0, so that H = DNI/DHI when dhi is not 0.
C12_GuardedH ==
    /\ \A k \in 1..Len(H_hourly) :
          /\ df[k].dhi = 0 => H_hourly[k] = Zero /\ <<"H", k - 1>> \notin divisions
          /\ (df[k].zenith > 90 /\ df[k].dhi # 0) =>
                /\ H_hourly[k] = RDiv(Num(df[k].dni), Num(df[k].dhi))
                /\ <<"H", k - 1>> \in divisions
    /\ (Len(H_hourly) > 0 /\ df[Len(H_hourly)].zenith > 90) => theta = 0

\* an hour with direct irradiance and dhi = 0 is recorded with H = 0, after
\* an hour with its zenith above 90 degrees and H = DNI/DHI = 2
C12_Witness ==
    \E k, m \in 1..Len(H_hourly) :
        /\ df[k].dhi = 0 /\ df[k].dni # 0 /\ H_hourly[k] = Zero
        /\ df[m].zenith > 90 /\ df[m].dhi # 0 /\ H_hourly[m] = Num(2)

\* the cells of data row k of a weather file, the column Alb left out
OtherCells(file, k) ==
    LET cells == file[k + 2].cells
    IN  [c \in (1..Len(cells)) \ {AlbColumn(file[2].cells)} |-> cells[c]]

\* C13: after a merge of no more records than weather rows has completed,
\* the first two lines of the weather file have the cells they had, the
\* data rows are as many as before and in their order, and every cell
\* outside the column Alb is the cell it was.
C13_OnlyAlbReplaced ==
    (pc = "done" /\ Len(resultsFile) <= OriginalRows) =>
        /\ weatherFile[1].cells = originalFile[1].cells
        /\ weatherFile[2].cells = originalFile[2].cells
        /\ Len(weatherFile) = Len(originalFile)
        /\ \A k \in 1..OriginalRows : OtherCells(weatherFile, k) = OtherCells(originalFile, k)

\* C14: the zenith handed to the angle of incidence, the relative airmass
\* and the spectral model is never above 90 degrees: it is 0 when the row's
\* apparent zenith is above 90 and the row's apparent zenith otherwise, and
\* no recorded R comes from a not-a-number spectrum.
C14_ZenithClamped ==
    /\ sun_zenith <= 90
    /\ Len(R_hourly) > 0 =>
          LET raw == df[Len(R_hourly)].apparent_zenith
          IN  /\ raw > 90 => sun_zenith = 0
              /\ raw <= 90 => sun_zenith = raw
    /\ \A k \in 1..Len(R_hourly) : ~IsNaN(R_hourly[k])

\* the spectral step has run for a night hour right after an hour whose
\* apparent zenith of 90 degrees was passed through
C14_Witness ==
    /\ Len(R_hourly) >= 2
    /\ df[Len(R_hourly)].apparent_zenith > 90
    /\ df[Len(R_hourly) - 1].apparent_zenith = 90
    /\ sun_zenith = 0
    /\ pc = "matrix"

\* a datetime value in hours since the ordinal 0
HoursOf(dt) == dt[1] * 24 + dt[2]

\* every element a list holds is kept, at its place, by the step
Kept(list, list_next) ==
    /\ Len(list_next) >= Len(list)
    /\ \A k \in 1..Len(list) : list_next[k] = list[k]

\* C15: the k-th record (from 0) carries the timestamp startHour + k hours,
\* the timestamps increase strictly, and no step - a later iteration, the
\* padding of the merge, a failure - changes or removes a value that one of
\* the nine sequences holds.
C15_AppendOnlyHourOrdered ==
    /\ [](/\ \A k \in 1..Len(cd) :
                HoursOf(cd[k]) = HoursOf(DateTime(simulationDict.startHour)) + (k - 1)
          /\ \A k \in 1..(Len(cd) - 1) : HoursOf(cd[k]) < HoursOf(cd[k + 1]))
    /\ [][/\ Kept(R_hourly, R_hourly') /\ Kept(H_hourly, H_hourly')
          /\ Kept(VF_8_2_hourly, VF_8_2_hourly') /\ Kept(VF_8_4_hourly, VF_8_4_hourly')
          /\ Kept(VF_8_5_hourly, VF_8_5_hourly') /\ Kept(VF_S_A1, VF_S_A1')
          /\ Kept(VF_S_A2, VF_S_A2') /\ Kept(a_hourly, a_hourly') /\ Kept(cd, cd')]_vars

\* a completed run over the end of the year: its records cross midnight and
\* its albedo sequence was padded in the merge
C15_Witness ==
    /\ pc = "done"
    /\ Len(cd) >= 3
    /\ cd[1][1] < cd[Len(cd)][1]
    /\ Len(a_hourly) > Len(cd)
    /\ a_hourly[Len(a_hourly)] = NaN

\* the nine sequences all have length n
Lockstep(n) == \A x \in 1..Len(hourly) : Len(hourly[x]) = n

\* C16: at the start of every iteration j the nine sequences have length j;
\* when the results file is written they have length T, the file has T rows,
\* and row k holds the timestamp, R, H, view factors and albedo of hour k,
\* none of them the padding value.
C16_Lockstep ==
    /\ pc = "loop" => Lockstep(j)
    /\ pc = "merge" => Lockstep(timedelta) /\ Len(resultsFile) = timedelta
    /\ resultsFile # <<>> =>
          /\ Len(resultsFile) = timedelta
          /\ \A k \in 1..Len(resultsFile) :
                LET row == resultsFile[k]
                    vf == ExtractViewFactors(df[k], CalculateViewFactor(df, k - 1))
                IN  /\ HoursOf(row.datetime)
                          = HoursOf(DateTime(simulationDict.startHour)) + (k - 1)
                    /\ row.R = ComputeR(ModellingSpectralIrradiance(df, k - 1), R_lamda_array)
                    /\ row.H = ComputeH(df[k])
                    /\ row.VF_8_2 = vf.VF_8_2 /\ row.VF_8_4 = vf.VF_8_4
                    /\ row.VF_8_5 = vf.VF_8_5
                    /\ row.VF_s_a1 = vf.VF_s_a1 /\ row.VF_s_a2 = vf.VF_s_a2
                    /\ row.spectral_Albedo = Albedo(row.R, row.H, vf.VF_s_a1, vf.VF_s_a2)
                    /\ \A f \in DOMAIN row : f # "datetime" => ~IsNaN(row[f])

\* the results file of a run of four hours is written and the albedo
\* sequence has since been padded
C16_Witness ==
    /\ Len(resultsFile) = 4
    /\ resultsFile[2].R # resultsFile[3].R
    /\ resultsFile[2].spectral_Albedo # resultsFile[3].spectral_Albedo
    /\ Len(a_hourly) = 5
    /\ Len(cd) = 4

(***************************************************************************)
(* Properties of build_ts_vf_matrix_albedo.                                *)
(***************************************************************************)
\* the length of the surface whose view factors row i holds: a PV row
\* surface of the albedometer's array (ts_pvrows, line 169), else a ground
\* surface of the PV rows' array (ts_ground, line 168), else the surface i of
\* the albedometer's array, for which nothing is written
HeldLength(i) ==
    IF i \in PVRowIndices(pvarray_albedo) THEN SurfaceLength(pvarray_albedo, i)
    ELSE IF i \in GroundIndices(pvarray_pv) THEN SurfaceLength(pvarray_pv, i)
    ELSE SurfaceLength(pvarray_albedo, i)

\* row i over the real-surface columns plus the sky column
RowTotal(i) == RAdd(RowSumTo(vf_matrix, i, N - 1), vf_matrix[<<i, N>>])

\* C7: in the matrix returned, every real surface i < N whose length is
\* above DISTANCE_TOLERANCE has a row that sums to 1 over the real-surface
\* columns and the sky column.
C7_RowSumsToOne ==
    vf_pc = "returned" =>
        \A i \in 0..(N - 1) : HeldLength(i) > DISTANCE_TOLERANCE => RowTotal(i) = One

\* C8: in the matrix returned, every row whose own surface has a length at
\* or below DISTANCE_TOLERANCE has sky view factor 0 and all other outgoing
\* view factors 0, and the surface tested for the row is of that kind too.
C8_DegenerateRowsZero ==
    vf_pc = "returned" =>
        \A i \in 0..(N - 1) :
            HeldLength(i) <= DISTANCE_TOLERANCE =>
                /\ \A c \in 0..N : vf_matrix[<<i, c>>] = Zero
                /\ i < N_ts_surfaces(pvarray_pv)
                /\ SurfaceLength(pvarray_pv, i) <= DISTANCE_TOLERANCE

\* C9: N bounds both arrays: no write raises, and every entry written has
\* a real-surface row 0..N-1 and a column inside the matrix.
C9_IndicesInBounds ==
    /\ vf_error = "none"
    /\ \A e \in touched : e[1] \in 0..(N - 1) /\ e[2] \in 0..N
    /\ (vf_pc = "returned" => N_ts_surfaces(pvarray_pv) <= N)

====
